---- MODULE Spec2Model ----
(***************************************************************************)
(* Plinko Probability: the ball phase machine, the launch controller of    *)
(* the intro model (play / Timer callbacks / step / reset) and the lab     *)
(* model (continuous play, hopper modes, bin cap).                         *)
(*                                                                         *)
(* Units.  fallenRatio and the step increment df = dt * 5 are counted in   *)
(* halves (2 is the ratio 1.0, 14 is 7.0); a direction is counted in       *)
(* halves too (-1 is -0.5 left, 1 is +0.5 right); a probability and a draw *)
(* of Math.random() are counted in tenths (5 is 0.5, draws are 0..9);      *)
(* Timer delays are counted in units of 100 ms (5 is 500 ms, 3 is 300 ms). *)
(***************************************************************************)
EXTENDS Integers, Sequences, FiniteSets, TLC

\* ---------------------------------------------------------------- bounds
\* largest number of rows a ball is created with in the model
MaxRows == 2
\* largest number of balls held in an active-ball array of the model
MaxActiveBalls == 2
\* largest number of play() calls between two resets
MaxPlays == 2
\* largest number of balls in the lab model's array
MaxLabBalls == 4
\* the lattice of the Galton board has the rows 0..MaxPegRows (ROWS_RANGE.max)
MaxPegRows == 3
\* largest number of values numberOfRows takes over the life of a Galton board
MaxRowChanges == 3
\* largest n the binomial functions are called with
MaxBinomialN == 6
\* largest number of addBall and reset calls made on one statistics object
MaxSamples == 4

\* ------------------------------------------------------- program constants
MAX_BALL_NUMBER == 100
DefaultNumberOfRows == 12
PHASE_INITIAL == 0
PHASE_FALLING == 1
PHASE_EXIT == 2
PHASE_COLLECTED == 3
\* LabModel's MAX_BALLS, balls per bin: the lab run with the query parameter maxBallsLab=3
MAX_BALLS == 3
\* ballCreationTimeInterval of the hopper modes 'ball', 'path' and 'none', in units of 5 ms
INTERVAL_BALL == 20
INTERVAL_PATH == 10
INTERVAL_NONE == 3
\* the cap of dtCapped, 0.090 s, in units of 5 ms
DT_CAP == 18

\* the values ballMode is documented to take, and the one play() handles
\* under another name
BallModes == {"oneBall", "tenBalls", "allBalls", "allRemainingBalls", "continuous"}
\* the values the ballMode property is documented to accept
DocumentedBallModes == {"oneBall", "tenBalls", "allRemainingBalls", "continuous"}
\* outcomes of Math.random(), in tenths
RandomValues == {0, 5, 9}
\* df = dt * 5 of one step call, in halves
StepSizes == {0, 1, 2, 14}
\* values the numberOfRows property is set to by the host
RowChoices == {1}
\* values the probability property is set to by the host, in tenths
Probabilities == {0, 5, 10}
\* the values of hopperMode that LabModel.step handles
HopperModes == {"ball", "path", "none"}
\* the values of the LabPlayPanel radio buttons
LabBallModes == {"oneBall", "continuous"}
\* dt of one LabModel.step call, in units of 5 ms
LabDts == {21}

VARIABLES
  probability,          \* PlinkoProbabilityIntroModel.probability (tenths)
  ballMode,             \* PlinkoProbabilityIntroModel.ballMode
  isBallCapReached,     \* PlinkoProbabilityIntroModel.isBallCapReached
  numberOfRows,         \* PlinkoProbabilityIntroModel.numberOfRows
  launchedBallsNumber,  \* PlinkoProbabilityIntroModel.launchedBallsNumber
  timerID,              \* PlinkoProbabilityIntroModel.timerID: ids handed out by Timer.setTimeout
  timers,               \* the callbacks Timer still holds, in registration order
  balls,                \* PlinkoProbabilityIntroModel.balls
  histogram,            \* PlinkoProbabilityIntroModel.histogram
  landedBallsNumber,    \* PlinkoProbabilityIntroModel.landedBallsNumber (copied at construction)
  lastOp,               \* history: the operation that produced this state
  plays,                \* history: play() calls since construction or the last reset
  staleLaunches         \* history: Timer callbacks that ran although a reset came after their setTimeout

VARIABLES
  hopperMode,                \* LabModel.hopperModeProperty
  isPlaying,                 \* LabModel.isPlayingProperty
  labBallMode,               \* LabModel.ballModeProperty
  labIsBallCapReached,       \* LabModel.isBallCapReachedProperty
  labNumberOfRows,           \* LabModel.numberOfRowsProperty
  labBalls,                  \* LabModel.balls
  labHistogram,              \* LabModel.histogram
  ballCreationTimeElapsed,   \* LabModel.ballCreationTimeElapsed (units of 5 ms)
  ballCreationTimeInterval,  \* LabModel.ballCreationTimeInterval (units of 5 ms)
  labOp                      \* history: the lab operation that produced this state

introVars == <<probability, ballMode, isBallCapReached, numberOfRows, launchedBallsNumber,
               timerID, timers, balls, histogram, landedBallsNumber, lastOp, plays, staleLaunches>>

labVars == <<hopperMode, isPlaying, labBallMode, labIsBallCapReached, labNumberOfRows, labBalls,
             labHistogram, ballCreationTimeElapsed, ballCreationTimeInterval, labOp>>

VARIABLES
  call                       \* the last call of a function of the models: its name, arguments and result

vars == <<introVars, labVars, call>>

Range(s) == {s[i] : i \in 1..Len(s)}

\* history record of an operation; a reset also records what it found:
\* callbacks pending, balls active, balls counted in the histogram
Op(name) == [op |-> name, pending |-> FALSE, active |-> FALSE, landed |-> FALSE]

\* ------------------------------------------------------------- Histogram
\* one bin per bin index; no ball has landed
HistogramNew == [bins |-> [k \in 0..MaxRows |-> 0], landedBallsNumber |-> 0]

\* Histogram.addBallToHistogram: count the ball in its bin
addBallToHistogram(h, ball) ==
  [h EXCEPT !.bins[ball.binIndex] = @ + 1, !.landedBallsNumber = @ + 1]

\* Histogram.reset
HistogramReset(h) == HistogramNew

\* ------------------------------------------------------------------ Ball
\* the column of the peg on row r: the rights drawn on the rows above it
RECURSIVE ColumnAt(_, _, _)
ColumnAt(r, draws, p) ==
  IF r = 0 THEN 0
  ELSE ColumnAt(r - 1, draws, p) + (((IF draws[r] < p THEN 1 ELSE -1) + 1) \div 2)

\* a loop that takes a draw equal to the probability for a move to the right
PegHistoryDrawAtMostProbability(p, n, draws) ==
  [i \in 1..(n + 1) |->
     [rowNumber |-> i - 1,
      columnNumber |-> ColumnAt(i - 1, draws, p),
      direction |-> IF draws[i] <= p THEN 1 ELSE -1]]

\* a loop that records the direction opposite to the one it adds to the column
PegHistoryDirectionsMirrored(p, n, draws) ==
  [i \in 1..(n + 1) |->
     [rowNumber |-> i - 1,
      columnNumber |-> ColumnAt(i - 1, draws, p),
      direction |-> IF draws[i] < p THEN -1 ELSE 1]]

\* Ball constructor, the loop over rowNumber = 0..numberOfRows
PegHistory(p, n, draws) ==
  [i \in 1..(n + 1) |->
     [rowNumber |-> i - 1,
      columnNumber |-> ColumnAt(i - 1, draws, p),
      direction |-> IF draws[i] < p THEN 1 ELSE -1]]

\* a Ball whose binIndex is taken after the last row's draw has been added
BallBinAfterLastRow(p, n, draws) ==
  LET path == PegHistory(p, n, draws)
      last == path[Len(path)]
  IN
  [phase |-> PHASE_INITIAL, row |-> 0, column |-> 0, direction |-> 0, fallenRatio |-> 0,
   pegHistory |-> path, binIndex |-> last.columnNumber + ((last.direction + 1) \div 2),
   numberOfRows |-> n, numberOfBalls |-> -1, exited |-> 0, landed |-> 0, updated |-> 0]

\* new Ball( probability, numberOfRows ) as the intro model holds it
Ball(p, n, draws) ==
  LET path == PegHistory(p, n, draws) IN
  [phase |-> PHASE_INITIAL, row |-> 0, column |-> 0, direction |-> 0, fallenRatio |-> 0,
   pegHistory |-> path, binIndex |-> path[Len(path)].columnNumber,
   numberOfRows |-> n,
   numberOfBalls |-> -1,          \* not set before the ball exits
   \* history: 'exited', 'landed' and 'updateStatisticsSignal' triggers sent
   exited |-> 0, landed |-> 0, updated |-> 0]

Draws(n) == [1..(n + 1) -> RandomValues]
NewBalls(p, n) == {Ball(p, n, d) : d \in Draws(n)}

\* an updatePegPositionInformation that reads the first peg and leaves it in the history
updatePegPositionInformationKeepsPeg(ball) ==
  LET peg == Head(ball.pegHistory) IN
  [ball EXCEPT !.column = peg.columnNumber, !.row = peg.rowNumber, !.direction = peg.direction]

\* an updatePegPositionInformation that also moves the ball's bin to the peg's column
updatePegPositionInformationMovesBin(ball) ==
  LET peg == Head(ball.pegHistory) IN
  [ball EXCEPT !.pegHistory = Tail(@), !.column = peg.columnNumber,
               !.row = peg.rowNumber, !.direction = peg.direction,
               !.binIndex = peg.columnNumber]

\* Ball.updatePegPositionInformation
updatePegPositionInformation(ball) ==
  LET peg == Head(ball.pegHistory) IN
  [ball EXCEPT !.pegHistory = Tail(@), !.column = peg.columnNumber,
               !.row = peg.rowNumber, !.direction = peg.direction]

\* Ball.initialPegPositionInformation
initialPegPositionInformation(ball) ==
  LET peg == ball.pegHistory[1] IN
  [ball EXCEPT !.column = peg.columnNumber, !.row = peg.rowNumber]

\* Ball.getPosition, case PHASE_FALLING: whether the horizontal displacement is
\* ( direction + finalBinHorizontalPosition ) * fallenRatio rather than
\* direction * fallenRatio
getPositionFallingAddsBinOffset(ball) == ball.row = 11

\* addNewBall's listener of the ball's 'exited' trigger
exitedListener(ball, h) ==
  LET h2 == addBallToHistogram(h, ball) IN
  [ball |-> [ball EXCEPT !.numberOfBalls = h2.bins[ball.binIndex]], histogram |-> h2]

\* ball.trigger( 'exited' ) followed by the assignment of numberOfBalls in step
triggerExited(ball, h) ==
  LET r == exitedListener([ball EXCEPT !.exited = @ + 1], h) IN
  [ball |-> [r.ball EXCEPT !.numberOfBalls = r.histogram.bins[ball.binIndex]],
   histogram |-> r.histogram]

\* ball.trigger( 'landed' )
triggerLanded(ball) == [ball EXCEPT !.landed = @ + 1]

\* step, the branch of PHASE_INITIAL
StepInitial(ball, df) ==
  IF ball.phase = PHASE_INITIAL
  THEN IF df + ball.fallenRatio < 2
       THEN initialPegPositionInformation([ball EXCEPT !.fallenRatio = @ + df])
       ELSE updatePegPositionInformation([ball EXCEPT !.phase = PHASE_FALLING, !.fallenRatio = 0])
  ELSE ball

\* step, the branch of PHASE_FALLING
StepFalling(ball, h, df) ==
  IF ball.phase = PHASE_FALLING
  THEN IF df + ball.fallenRatio < 2
       THEN [ball |-> [ball EXCEPT !.fallenRatio = @ + df], histogram |-> h]
       ELSE IF Len(ball.pegHistory) > 1
            THEN [ball |-> updatePegPositionInformation([ball EXCEPT !.fallenRatio = 0]),
                  histogram |-> h]
            ELSE triggerExited(
                   updatePegPositionInformation([ball EXCEPT !.fallenRatio = 0, !.phase = PHASE_EXIT]),
                   h)
  ELSE [ball |-> ball, histogram |-> h]

\* a branch of PHASE_EXIT that adds df before it tests the threshold
StepExitAddsBeforeTest(ball, df) ==
  IF ball.phase = PHASE_EXIT
  THEN IF df + ball.fallenRatio < 14 - ball.numberOfBalls
       THEN [ball EXCEPT !.fallenRatio = @ + df]
       ELSE triggerLanded([ball EXCEPT !.phase = PHASE_COLLECTED, !.fallenRatio = @ + df])
  ELSE ball

\* a branch of PHASE_EXIT that leaves the ball where it is at the threshold
StepExitStopsAtThreshold(ball, df) ==
  IF ball.phase = PHASE_EXIT
  THEN IF df + ball.fallenRatio < 14 - ball.numberOfBalls
       THEN [ball EXCEPT !.fallenRatio = @ + df]
       ELSE ball
  ELSE ball

\* a branch of PHASE_EXIT that starts the progress of a collected ball again
StepExitRestartsCollected(ball, df) ==
  IF ball.phase = PHASE_EXIT
  THEN IF df + ball.fallenRatio < 14 - ball.numberOfBalls
       THEN [ball EXCEPT !.fallenRatio = @ + df]
       ELSE triggerLanded([ball EXCEPT !.phase = PHASE_COLLECTED])
  ELSE IF ball.phase = PHASE_COLLECTED
  THEN [ball EXCEPT !.fallenRatio = 0]
  ELSE ball

\* step, the branch of PHASE_EXIT
StepExit(ball, df) ==
  IF ball.phase = PHASE_EXIT
  THEN IF df + ball.fallenRatio < 14 - ball.numberOfBalls
       THEN [ball EXCEPT !.fallenRatio = @ + df]
       ELSE triggerLanded([ball EXCEPT !.phase = PHASE_COLLECTED])
  ELSE ball

\* step, the body of balls.forEach for one ball
StepBall(ball, h, df) ==
  LET f == StepFalling(StepInitial(ball, df), h, df) IN
  [ball |-> StepExit(f.ball, df), histogram |-> f.histogram]

\* step, balls.forEach: the balls in array order, each seeing the histogram
\* as the balls before it left it
RECURSIVE StepBalls(_, _, _)
StepBalls(bs, h, df) ==
  IF bs = <<>> THEN [balls |-> <<>>, histogram |-> h]
  ELSE LET first == StepBall(Head(bs), h, df)
           rest == StepBalls(Tail(bs), first.histogram, df)
       IN [balls |-> <<first.ball>> \o rest.balls, histogram |-> rest.histogram]

\* ball.trigger( 'updateStatisticsSignal' )
triggerUpdateStatistics(ball) == [ball EXCEPT !.updated = @ + 1]

\* updateStatisticsAndLand without its test of the phase
updateStatisticsAndLandUnguarded(ball) ==
  [triggerLanded(triggerUpdateStatistics(ball)) EXCEPT !.phase = PHASE_COLLECTED]

\* updateStatisticsAndLand that sends a ball already under way to PHASE_EXIT
updateStatisticsAndLandSendsToExit(ball) ==
  IF ball.phase = PHASE_INITIAL
  THEN [triggerLanded(triggerUpdateStatistics(ball)) EXCEPT !.phase = PHASE_COLLECTED]
  ELSE [ball EXCEPT !.phase = PHASE_EXIT]

\* updateStatisticsAndLand that fires its signals in every phase
updateStatisticsAndLandFiresInEveryPhase(ball) ==
  IF ball.phase = PHASE_INITIAL
  THEN [triggerLanded(triggerUpdateStatistics(ball)) EXCEPT !.phase = PHASE_COLLECTED]
  ELSE triggerLanded(triggerUpdateStatistics(ball))

\* Ball.updateStatisticsAndLand
updateStatisticsAndLand(ball) ==
  IF ball.phase = PHASE_INITIAL
  THEN [triggerLanded(triggerUpdateStatistics(ball)) EXCEPT !.phase = PHASE_COLLECTED]
  ELSE ball

\* ------------------------------------------------- PlinkoProbabilityIntroModel
IntroInit ==
  /\ probability = 5
  /\ ballMode = "oneBall"
  /\ isBallCapReached = FALSE
  /\ numberOfRows = DefaultNumberOfRows
  /\ launchedBallsNumber = 0
  /\ timerID = <<>>
  /\ timers = <<>>
  /\ balls = <<>>
  /\ histogram = HistogramNew
  /\ landedBallsNumber = HistogramNew.landedBallsNumber
  /\ lastOp = Op("init")
  /\ plays = 0
  /\ staleLaunches = 0

\* the ids Timer.setTimeout returns are fresh: above every id held or remembered
MaxTimerId(ids, ts) ==
  LET used == Range(ids) \cup {ts[i].id : i \in 1..Len(ts)} \cup {0} IN
  CHOOSE k \in used : \A j \in used : j <= k

\* a loop condition that lets one launch too many through
LoopConditionOffByOne(i, ten, launched) ==
  (ten => i < 10) /\ launched <= MAX_BALL_NUMBER

\* the loop conditions of play: (i < 10) && (launchedBallsNumber < MAX_BALL_NUMBER)
\* of 'tenBalls', and launchedBallsNumber < MAX_BALL_NUMBER of 'allBalls' (ten FALSE)
LoopCondition(i, ten, launched) ==
  (ten => i < 10) /\ launched < MAX_BALL_NUMBER

\* the loops of play: the value of i when the loop ends, each iteration having
\* counted one launch and incremented i
LaunchLoop(ten, launched) ==
  CHOOSE c \in 0..(MAX_BALL_NUMBER + 1) :
    /\ ~LoopCondition(c, ten, launched + c)
    /\ \A j \in 0..(c - 1) : LoopCondition(j, ten, launched + j)

\* a loop of play whose first launch already waits one stagger interval
ScheduleLaunchesDelayed(ten, launched, ids, ts) ==
  LET count == LaunchLoop(ten, launched)
      base == MaxTimerId(ids, ts)
      spacing == IF ten THEN 5 ELSE 3
  IN [launched |-> launched + count,
      timerID |-> ids \o [k \in 1..count |-> base + k],
      timers |-> ts \o [k \in 1..count |->
                          [id |-> base + k, remaining |-> k * spacing, stale |-> FALSE]]]

\* a loop of play that registers the callbacks and leaves the launches uncounted
ScheduleLaunchesUncounted(ten, launched, ids, ts) ==
  LET count == LaunchLoop(ten, launched)
      base == MaxTimerId(ids, ts)
      spacing == IF ten THEN 5 ELSE 3
  IN [launched |-> launched,
      timerID |-> ids \o [k \in 1..count |-> base + k],
      timers |-> ts \o [k \in 1..count |->
                          [id |-> base + k, remaining |-> (k - 1) * spacing, stale |-> FALSE]]]

\* the loop of play for 'tenBalls' (delay i * 500 ms) and 'allBalls' (delay
\* i * 300 ms): the launches counted and the callbacks registered
ScheduleLaunches(ten, launched, ids, ts) ==
  LET count == LaunchLoop(ten, launched)
      base == MaxTimerId(ids, ts)
      spacing == IF ten THEN 5 ELSE 3
  IN [launched |-> launched + count,
      timerID |-> ids \o [k \in 1..count |-> base + k],
      timers |-> ts \o [k \in 1..count |->
                          [id |-> base + k, remaining |-> (k - 1) * spacing, stale |-> FALSE]]]

\* an addNewBall that does not push the ball
addNewBallDropped(bs, ball) == bs

\* addNewBall: the array after the push of a new ball
addNewBall(bs, ball) == Append(bs, ball)

\* play, case 'oneBall'
PlayOneBall ==
  /\ plays < MaxPlays
  /\ plays' = plays + 1
  /\ ballMode = "oneBall"
  /\ IF launchedBallsNumber < MAX_BALL_NUMBER
     THEN /\ numberOfRows <= MaxRows
          /\ Len(balls) < MaxActiveBalls
          /\ launchedBallsNumber' = launchedBallsNumber + 1
          /\ \E b \in NewBalls(probability, numberOfRows) : balls' = addNewBall(balls, b)
     ELSE UNCHANGED <<launchedBallsNumber, balls>>
  /\ UNCHANGED <<labVars, call>>
  /\ lastOp' = Op("play")
  /\ UNCHANGED <<probability, ballMode, isBallCapReached, numberOfRows, timerID, timers,
                 histogram, landedBallsNumber, staleLaunches>>

\* play, cases 'tenBalls' and 'allBalls'
PlayScheduled ==
  /\ plays < MaxPlays
  /\ plays' = plays + 1
  /\ ballMode \in {"tenBalls", "allBalls"}
  /\ LET r == ScheduleLaunches(ballMode = "tenBalls", launchedBallsNumber, timerID, timers)
     IN /\ launchedBallsNumber' = r.launched
        /\ timerID' = r.timerID
        /\ timers' = r.timers
  /\ UNCHANGED <<labVars, call>>
  /\ lastOp' = Op("play")
  /\ UNCHANGED <<probability, ballMode, isBallCapReached, numberOfRows, balls,
                 histogram, landedBallsNumber, staleLaunches>>

\* play, the default case: throw new Error( 'Unhandled galton Board Radio Button state' )
PlayUnhandled ==
  /\ plays < MaxPlays
  /\ plays' = plays + 1
  /\ ballMode \notin {"oneBall", "tenBalls", "allBalls"}
  /\ UNCHANGED <<labVars, call>>
  /\ lastOp' = Op("playThrew")
  /\ UNCHANGED <<probability, ballMode, isBallCapReached, numberOfRows, launchedBallsNumber,
                 timerID, timers, balls, histogram, landedBallsNumber, staleLaunches>>

\* play
Play == PlayOneBall \/ PlayScheduled \/ PlayUnhandled

\* resetTimer that clears nothing
resetTimerKeepsAll(ids, ts) == ts

\* Timer.clearTimeout for every remembered id: the callbacks Timer still holds afterwards
resetTimer(ids, ts) ==
  LET kept(t) == t.id \notin Range(ids) IN SelectSeq(ts, kept)

\* a callback registered before a reset that Timer still holds after it
MarkStale(ts) == [i \in 1..Len(ts) |-> [ts[i] EXCEPT !.stale = TRUE]]

\* a reset that leaves launchedBallsNumber as it is
ResetKeepsLaunchedCount ==
  /\ probability' = 5
  /\ ballMode' = "oneBall"
  /\ isBallCapReached' = FALSE
  /\ numberOfRows' = DefaultNumberOfRows
  /\ balls' = <<>>
  /\ histogram' = HistogramReset(histogram)
  /\ timers' = MarkStale(resetTimer(timerID, timers))
  /\ timerID' = <<>>
  /\ UNCHANGED <<labVars, call>>
  /\ lastOp' = [op |-> "reset", pending |-> timers # <<>>, active |-> balls # <<>>,
                landed |-> histogram.landedBallsNumber > 0]
  /\ plays' = 0
  /\ UNCHANGED <<launchedBallsNumber, landedBallsNumber, staleLaunches>>

\* reset
Reset ==
  /\ probability' = 5
  /\ ballMode' = "oneBall"
  /\ isBallCapReached' = FALSE
  /\ numberOfRows' = DefaultNumberOfRows
  /\ balls' = <<>>
  /\ histogram' = HistogramReset(histogram)
  /\ launchedBallsNumber' = 0
  /\ timers' = MarkStale(resetTimer(timerID, timers))
  /\ timerID' = <<>>
  /\ UNCHANGED <<labVars, call>>
  /\ lastOp' = [op |-> "reset", pending |-> timers # <<>>, active |-> balls # <<>>,
                landed |-> histogram.landedBallsNumber > 0]
  /\ plays' = 0
  /\ UNCHANGED <<landedBallsNumber, staleLaunches>>

\* Timer.step( dt ): the callbacks whose delay has elapsed after dt more
DueTimers(ts, dt) ==
  LET due(t) == t.remaining - dt <= 0 IN SelectSeq(ts, due)

\* Timer.step( dt ): the callbacks Timer keeps, each dt closer
WaitingTimers(ts, dt) ==
  LET waiting(t) == t.remaining - dt > 0
      kept == SelectSeq(ts, waiting)
  IN [i \in 1..Len(kept) |-> [kept[i] EXCEPT !.remaining = @ - dt]]

StaleCount(ts) == Cardinality({i \in 1..Len(ts) : ts[i].stale})

\* Timer.step( dt ): every due callback runs thisModel.addNewBall(), in registration order
TimerStep(dt) ==
  /\ timers # <<>>
  /\ LET due == DueTimers(timers, dt) IN
       /\ Len(due) > 0 => numberOfRows <= MaxRows
       /\ Len(balls) + Len(due) <= MaxActiveBalls
       /\ \E new \in [1..Len(due) -> NewBalls(probability, IF Len(due) > 0 THEN numberOfRows ELSE 1)] :
            balls' = balls \o new
       /\ staleLaunches' = staleLaunches + StaleCount(due)
  /\ timers' = WaitingTimers(timers, dt)
  /\ UNCHANGED <<labVars, call>>
  /\ lastOp' = Op("other")
  /\ UNCHANGED <<probability, ballMode, isBallCapReached, numberOfRows, launchedBallsNumber,
                 timerID, histogram, landedBallsNumber, plays>>

\* the time until the next callback is due
NextDelay(ts) ==
  IF ts = <<>> THEN 0
  ELSE CHOOSE d \in {ts[i].remaining : i \in 1..Len(ts)} :
         \A i \in 1..Len(ts) : d <= ts[i].remaining

\* step( dt ) with df = dt * 5
Step(df) ==
  /\ balls # <<>>
  /\ LET r == StepBalls(balls, histogram, df) IN
       /\ balls' = r.balls
       /\ histogram' = r.histogram
  /\ UNCHANGED <<labVars, call>>
  /\ lastOp' = Op("step")
  /\ UNCHANGED <<probability, ballMode, isBallCapReached, numberOfRows, launchedBallsNumber,
                 timerID, timers, landedBallsNumber, plays, staleLaunches>>

\* the host sets the ballMode property
SetBallMode(m) ==
  /\ m # ballMode
  /\ ballMode' = m
  /\ UNCHANGED <<labVars, call>>
  /\ lastOp' = Op("other")
  /\ UNCHANGED <<probability, isBallCapReached, numberOfRows, launchedBallsNumber,
                 timerID, timers, balls, histogram, landedBallsNumber, plays, staleLaunches>>

\* the host sets the numberOfRows property
SetNumberOfRows(n) ==
  /\ n # numberOfRows
  /\ numberOfRows' = n
  /\ UNCHANGED <<labVars, call>>
  /\ lastOp' = Op("other")
  /\ UNCHANGED <<probability, ballMode, isBallCapReached, launchedBallsNumber,
                 timerID, timers, balls, histogram, landedBallsNumber, plays, staleLaunches>>

\* the host sets the probability property
SetProbability(p) ==
  /\ p # probability
  /\ probability' = p
  /\ UNCHANGED <<labVars, call>>
  /\ lastOp' = Op("other")
  /\ UNCHANGED <<ballMode, isBallCapReached, numberOfRows, launchedBallsNumber,
                 timerID, timers, balls, histogram, landedBallsNumber, plays, staleLaunches>>

\* play in 'oneBall' mode with no ball in the array
LaunchFirstBall ==
  /\ balls = <<>>
  /\ PlayOneBall

\* ball.updateStatisticsAndLand() for every ball of the array, the loop of
\* LabModel.step in the 'path' and 'none' hopper modes
Land ==
  /\ balls # <<>>
  /\ balls' = [i \in 1..Len(balls) |-> updateStatisticsAndLand(balls[i])]
  /\ UNCHANGED <<labVars, call>>
  /\ lastOp' = Op("land")
  /\ UNCHANGED <<probability, ballMode, isBallCapReached, numberOfRows, launchedBallsNumber,
                 timerID, timers, histogram, landedBallsNumber, plays, staleLaunches>>

\* ---------------------------------------------------------------- LabModel
\* the lab histogram: per bin the binCount LabModel maintains, and the number
\* of balls that have landed
LabHistogramNew ==
  [bins |-> [k \in 0..MaxRows |-> [binCount |-> 0]], landedBallsNumber |-> 0,
   \* history: per bin, the balls added to the histogram since it was last emptied
   exitedInto |-> [k \in 0..MaxRows |-> 0],
   \* history: the balls removeBallListener took out of the array on the pegs
   removedOnPegs |-> 0]

\* Histogram.addBallToHistogram as the lab's ballOutOfPegsListener calls it
labAddBallToHistogram(h, ball) ==
  [h EXCEPT !.landedBallsNumber = @ + 1, !.exitedInto[ball.binIndex] = @ + 1]

\* Histogram.getMaximumActualBinCount
getMaximumActualBinCount(h) ==
  CHOOSE m \in {h.bins[k].binCount : k \in DOMAIN h.bins} :
    \A k \in DOMAIN h.bins : h.bins[k].binCount <= m

\* the probability of the lab model, in tenths
LabProbability == 5

\* ids tell the balls of the array apart (balls.indexOf compares objects)
FreshId(bs) ==
  LET used == {bs[i].id : i \in 1..Len(bs)} \cup {0} IN
  1 + CHOOSE k \in used : \A j \in used : j <= k

\* a count that leaves the ball itself out
binCountNotIncremented(bin) == bin.binCount

\* this.binCount++ : the count of the bin with the ball itself
binCountIncremented(bin) == bin.binCount + 1

\* new LabBall( probability, numberOfRows, bins )
LabBall(p, n, draws, id, bins) ==
  LET path == PegHistory(p, n, draws)
      column == path[Len(path)].columnNumber
  IN
  [id |-> id, phase |-> PHASE_INITIAL, row |-> 0, column |-> 0, direction |-> 0,
   fallenRatio |-> 0, pegHistory |-> path, binIndex |-> column,
   numberOfRows |-> n,
   \* the count of the ball's bin as the constructor read and incremented it
   binCount |-> binCountIncremented(bins[column]),
   \* history: ballOutOfPegsEmitter and ballCollectedEmitter emissions
   outOfPegs |-> 0, collected |-> 0,
   \* history: the calls of the forEach callback on the ball in the last step
   visits |-> 0]

\* LabBall.step( dtCapped ): the ball moves one stage on
LabBallStep(ball, dtCapped) ==
  IF dtCapped <= 0 THEN ball
  ELSE IF ball.phase = PHASE_INITIAL
  THEN updatePegPositionInformation([ball EXCEPT !.phase = PHASE_FALLING])
  ELSE IF ball.phase = PHASE_FALLING
  THEN IF Len(ball.pegHistory) > 1
       THEN updatePegPositionInformation(ball)
       ELSE updatePegPositionInformation([ball EXCEPT !.phase = PHASE_EXIT, !.outOfPegs = @ + 1])
  ELSE IF ball.phase = PHASE_EXIT
  THEN [ball EXCEPT !.phase = PHASE_COLLECTED, !.collected = @ + 1]
  ELSE ball

\* LabBall.updateStatisticsAndLand: Ball.updateStatisticsAndLand with the
\* emitters of the lab ball
LabUpdateStatisticsAndLand(ball) ==
  IF ball.phase = PHASE_INITIAL
  THEN [ball EXCEPT !.phase = PHASE_COLLECTED, !.outOfPegs = @ + 1, !.collected = @ + 1]
  ELSE ball

\* the sequence without its i-th element
RemoveAt(s, i) == SubSeq(s, 1, i - 1) \o SubSeq(s, i + 1, Len(s))

\* addNewBall's removeBallListener, run for the ball at index i: the ball
\* before it leaves the array
removeBallListener(bs, i) == IF i - 1 > 0 THEN RemoveAt(bs, i - 1) ELSE bs

\* balls.forEach of LabModel.step from index i on: the callback runs on the
\* element at each index of the array as the listeners have left it
RECURSIVE LabForEach(_, _, _, _, _)
LabForEach(bs, h, i, fast, dtCapped) ==
  IF i > Len(bs) THEN [balls |-> bs, histogram |-> h]
  ELSE LET called == [bs[i] EXCEPT !.visits = @ + 1]
           after == IF fast THEN LabUpdateStatisticsAndLand(called)
                    ELSE LabBallStep(called, dtCapped)
           h2 == IF after.outOfPegs > bs[i].outOfPegs THEN labAddBallToHistogram(h, after) ELSE h
           bs2 == [bs EXCEPT ![i] = after]
           removes == after.collected > bs[i].collected /\ i - 1 > 0
           bs3 == IF after.collected > bs[i].collected THEN removeBallListener(bs2, i) ELSE bs2
           h3 == IF removes /\ bs2[i - 1].phase \in {PHASE_INITIAL, PHASE_FALLING}
                 THEN [h2 EXCEPT !.removedOnPegs = @ + 1] ELSE h2
       IN LabForEach(bs3, h3, i + 1, fast, dtCapped)

\* a hopperMode listener that clears the balls and leaves the bins as they are
hopperModeListenerKeepsCounts(bs, h) == h

\* a hopperMode listener that takes every ball of the array out of its bin
hopperModeListenerRemovesAll(bs, h) ==
  LET inArray(k) == Cardinality({i \in 1..Len(bs) : bs[i].binIndex = k})
  IN [h EXCEPT !.bins = [k \in DOMAIN h.bins |-> [binCount |-> h.bins[k].binCount - inArray(k)]]]

\* the hopperMode listener: the bins after the balls still on the board are
\* taken out of their binCount
hopperModeListener(bs, h) ==
  LET onBoard(k) == Cardinality({i \in 1..Len(bs) :
                      /\ bs[i].binIndex = k
                      /\ ~(bs[i].phase = PHASE_EXIT \/ bs[i].phase = PHASE_COLLECTED)})
  IN [h EXCEPT !.bins = [k \in DOMAIN h.bins |-> [binCount |-> h.bins[k].binCount - onBoard(k)]]]

\* LabModel.addNewBall
LabAddNewBall(bs, h, cap, ball) ==
  LET h2 == [h EXCEPT !.bins[ball.binIndex].binCount = @ + 1] IN
  [balls |-> Append(bs, ball),
   histogram |-> h2,
   cap |-> IF getMaximumActualBinCount(h2) >= MAX_BALLS THEN TRUE ELSE cap]

\* new LabBalls that take every bin for empty
NewLabBallsForEmptyBins(bs, n, h) ==
  {LabBall(LabProbability, n, d, FreshId(bs), LabHistogramNew.bins) : d \in Draws(n)}

\* the balls the next new LabBall can be, h being the histogram of the model
NewLabBalls(bs, n, h) ==
  {LabBall(LabProbability, n, d, FreshId(bs), h.bins) : d \in Draws(n)}

\* the model creates a ball only while the array and the bins have room for it
CanCreate ==
  /\ labNumberOfRows <= MaxRows
  /\ Len(labBalls) < MaxLabBalls
  /\ getMaximumActualBinCount(labHistogram) <= MAX_BALLS

LabInit ==
  /\ hopperMode = "ball"
  /\ isPlaying = FALSE
  /\ labBallMode = "oneBall"
  /\ labIsBallCapReached = FALSE
  /\ labNumberOfRows = DefaultNumberOfRows
  /\ labBalls = <<>>
  /\ labHistogram = LabHistogramNew
  /\ ballCreationTimeElapsed = 0
  /\ ballCreationTimeInterval = 0
  /\ labOp = "init"

\* no function has been called
CallInit == call = [fn |-> "none"]

Init == IntroInit /\ LabInit /\ CallInit

\* LabPlayPanel: the listener of the play button, which is enabled while the
\* cap is not reached
LabPressPlay ==
  /\ ~labIsBallCapReached
  /\ IF labBallMode = "continuous"
     THEN /\ isPlaying' = TRUE
          /\ UNCHANGED <<labBalls, labHistogram, labIsBallCapReached>>
     ELSE /\ CanCreate
          /\ \E b \in NewLabBalls(labBalls, labNumberOfRows, labHistogram) :
               LET r == LabAddNewBall(labBalls, labHistogram, labIsBallCapReached, b) IN
               /\ labBalls' = r.balls
               /\ labHistogram' = r.histogram
               /\ labIsBallCapReached' = r.cap
          /\ UNCHANGED isPlaying
  /\ labOp' = "other"
  /\ UNCHANGED <<hopperMode, labBallMode, labNumberOfRows, ballCreationTimeElapsed,
                 ballCreationTimeInterval>>
  /\ UNCHANGED <<introVars, call>>

\* LabPlayPanel: the listener of the pause button
LabPressPause ==
  /\ isPlaying
  /\ isPlaying' = FALSE
  /\ labOp' = "other"
  /\ UNCHANGED <<hopperMode, labBallMode, labIsBallCapReached, labNumberOfRows, labBalls,
                 labHistogram, ballCreationTimeElapsed, ballCreationTimeInterval>>
  /\ UNCHANGED <<introVars, call>>

\* a radio button sets ballMode; LabPlayPanel's link stops the playing
LabSetBallMode(m) ==
  /\ m # labBallMode
  /\ labBallMode' = m
  /\ isPlaying' = FALSE
  /\ labOp' = "other"
  /\ UNCHANGED <<hopperMode, labIsBallCapReached, labNumberOfRows, labBalls,
                 labHistogram, ballCreationTimeElapsed, ballCreationTimeInterval>>
  /\ UNCHANGED <<introVars, call>>

\* history record of a change of hopperMode: whether the listener found balls
\* on the pegs, and balls past the pegs beside them
HopperModeOp(bs) ==
  LET onPegs == \E i \in 1..Len(bs) : bs[i].phase \in {PHASE_INITIAL, PHASE_FALLING}
      past == \E i \in 1..Len(bs) : bs[i].phase \in {PHASE_EXIT, PHASE_COLLECTED}
  IN IF onPegs /\ past THEN "hopperModeOnAndPastPegs"
     ELSE IF onPegs THEN "hopperModeOnPegs" ELSE "hopperMode"

\* the host sets hopperMode; LabModel's link takes the balls off the board
LabSetHopperMode(m) ==
  /\ m # hopperMode
  /\ hopperMode' = m
  /\ labHistogram' = hopperModeListener(labBalls, labHistogram)
  /\ labBalls' = <<>>
  /\ labOp' = HopperModeOp(labBalls)
  /\ UNCHANGED <<isPlaying, labBallMode, labIsBallCapReached, labNumberOfRows,
                 ballCreationTimeElapsed, ballCreationTimeInterval>>
  /\ UNCHANGED <<introVars, call>>

\* the host sets numberOfRows, with no ball in the array
LabSetNumberOfRows(n) ==
  /\ n # labNumberOfRows
  /\ labBalls = <<>>
  /\ labNumberOfRows' = n
  /\ labOp' = "other"
  /\ UNCHANGED <<hopperMode, isPlaying, labBallMode, labIsBallCapReached, labBalls,
                 labHistogram, ballCreationTimeElapsed, ballCreationTimeInterval>>
  /\ UNCHANGED <<introVars, call>>

\* ballCreationTimeElapsed is compared with ballCreationTimeInterval only: a
\* value above every interval is kept as the least such value
Saturated(elapsed) == IF elapsed > INTERVAL_BALL THEN INTERVAL_BALL + 1 ELSE elapsed

\* the balls as a step finds them: its callback has run on none of them
NotVisited(bs) == [i \in 1..Len(bs) |-> [bs[i] EXCEPT !.visits = 0]]

\* LabModel.step( dt )
LabStep(dt) ==
  LET elapsed == ballCreationTimeElapsed + dt
      create == isPlaying /\ elapsed > ballCreationTimeInterval
      dtCapped == IF DT_CAP < dt * 10 THEN DT_CAP ELSE dt * 10
  IN
  /\ create => CanCreate
  /\ \E b \in NewLabBalls(labBalls, IF create THEN labNumberOfRows ELSE 1, labHistogram) :
       LET added == IF create
                    THEN LabAddNewBall(labBalls, labHistogram, labIsBallCapReached, b)
                    ELSE [balls |-> labBalls, histogram |-> labHistogram,
                          cap |-> labIsBallCapReached]
           r == LabForEach(NotVisited(added.balls), added.histogram, 1,
                           hopperMode # "ball", dtCapped)
       IN /\ labBalls' = r.balls
          /\ labHistogram' = r.histogram
          /\ labIsBallCapReached' = added.cap
  /\ ballCreationTimeElapsed' =
       IF create THEN 0 ELSE Saturated(elapsed)
  /\ ballCreationTimeInterval' =
       IF hopperMode = "ball" THEN INTERVAL_BALL
       ELSE IF hopperMode = "path" THEN INTERVAL_PATH ELSE INTERVAL_NONE
  /\ labOp' = IF create THEN "stepCreated" ELSE "other"
  /\ UNCHANGED <<hopperMode, isPlaying, labBallMode, labNumberOfRows>>
  /\ UNCHANGED <<introVars, call>>

\* LabModel.reset
LabReset ==
  /\ hopperMode' = "ball"
  /\ isPlaying' = FALSE
  /\ labBallMode' = "oneBall"
  /\ labIsBallCapReached' = FALSE
  /\ labNumberOfRows' = DefaultNumberOfRows
  /\ labBalls' = <<>>
  /\ labHistogram' = LabHistogramNew
  /\ labOp' = "other"
  /\ UNCHANGED <<ballCreationTimeElapsed, ballCreationTimeInterval>>
  /\ UNCHANGED <<introVars, call>>

\* PlinkoProbabilityLabView: the listener of the eraser button
LabErase ==
  /\ labHistogram' = LabHistogramNew
  /\ labBalls' = <<>>
  /\ labIsBallCapReached' = FALSE
  /\ labOp' = "other"
  /\ UNCHANGED <<hopperMode, isPlaying, labBallMode, labNumberOfRows,
                 ballCreationTimeElapsed, ballCreationTimeInterval>>
  /\ UNCHANGED <<introVars, call>>

\* getTheoreticalStandardDeviationOfMean: 'Not A Number', or the square root of
\* numberOfRows * probability * (1 - probability) / this.landedBallsNumber,
\* given by its radicand as a fraction (p in tenths)
getTheoreticalStandardDeviationOfMean(n, p) ==
  IF landedBallsNumber > 0
  THEN [notANumber |-> FALSE,
        radicand |-> [num |-> n * p * (10 - p), den |-> 100 * landedBallsNumber]]
  ELSE [notANumber |-> TRUE]

\* ------------------------------------------------------------- fractions
\* a JavaScript number that is a ratio of integers, in lowest terms with a
\* positive denominator
RECURSIVE GCD(_, _)
GCD(a, b) == IF b = 0 THEN a ELSE GCD(b, a % b)

Abs(x) == IF x < 0 THEN -x ELSE x

Fraction(n, d) ==
  LET g == GCD(Abs(n), Abs(d))
      sign == IF d < 0 THEN -1 ELSE 1
  IN [num |-> (sign * n) \div g, den |-> (sign * d) \div g]

\* the least common denominator of two fractions
CommonDen(x, y) == (x.den \div GCD(x.den, y.den)) * y.den

FracAdd(x, y) ==
  LET d == CommonDen(x, y)
  IN Fraction(x.num * (d \div x.den) + y.num * (d \div y.den), d)
FracSub(x, y) ==
  LET d == CommonDen(x, y)
  IN Fraction(x.num * (d \div x.den) - y.num * (d \div y.den), d)
FracMul(x, y) == Fraction(x.num * y.num, x.den * y.den)
\* x / y for y # 0
FracDiv(x, y) == Fraction(x.num * y.den, x.den * y.num)
Whole(i) == [num |-> i, den |-> 1]

\* --------------------------------------------------- the binomial functions
\* getBinomialCoefficient, first loop: coefficient *= i for i = from..n
RECURSIVE MultiplyLoop(_, _, _)
MultiplyLoop(coefficient, i, n) ==
  IF i > n THEN coefficient ELSE MultiplyLoop(FracMul(coefficient, Whole(i)), i + 1, n)

\* getBinomialCoefficient, second loop: coefficient /= i for i = from..k
RECURSIVE DivideLoop(_, _, _)
DivideLoop(coefficient, i, k) ==
  IF i > k THEN coefficient ELSE DivideLoop(FracDiv(coefficient, Whole(i)), i + 1, k)

\* a getBinomialCoefficient whose first loop starts one factor early
getBinomialCoefficientOneFactorMore(n, k) ==
  DivideLoop(MultiplyLoop(Whole(1), n - k, n), 1, k)

\* getBinomialCoefficient
getBinomialCoefficient(n, k) ==
  DivideLoop(MultiplyLoop(Whole(1), n - k + 1, n), 1, k)

\* Math.pow( x, e ) for an integer e, and x # 0 when e < 0; Math.pow( 0, 0 ) is 1
RECURSIVE MathPow(_, _)
MathPow(x, e) ==
  IF e = 0 THEN Whole(1)
  ELSE IF e > 0 THEN FracMul(x, MathPow(x, e - 1))
  ELSE FracDiv(Whole(1), MathPow(x, -e))

\* getBinomialProbability; p is in tenths. "assert" is the global of the
\* assertion library: it is defined only when assertions are enabled, and the
\* statement is then  assert( k <= n, ... )
getBinomialProbability(n, k, p, assertionsEnabled) ==
  IF assertionsEnabled /\ ~(k <= n)
  THEN [threw |-> TRUE]
  ELSE LET binomialCoefficient == getBinomialCoefficient(n, k)
           statisticalWeight == FracMul(MathPow(Fraction(p, 10), k),
                                        MathPow(FracSub(Whole(1), Fraction(p, 10)), n - k))
       IN [threw |-> FALSE, value |-> FracMul(binomialCoefficient, statisticalWeight)]

\* getBinomialDistribution, the loop from k on: push getBinomialProbability( n, k, p )
RECURSIVE DistributionLoop(_, _, _, _, _)
DistributionLoop(array, k, n, p, assertionsEnabled) ==
  IF k < n + 1
  THEN DistributionLoop(Append(array, getBinomialProbability(n, k, p, assertionsEnabled).value),
                        k + 1, n, p, assertionsEnabled)
  ELSE array

\* a getBinomialDistribution that never computes the last bin
getBinomialDistributionWithoutLastBin(n, p, assertionsEnabled) ==
  DistributionLoop(<<>>, 0, n - 1, p, assertionsEnabled)

\* getBinomialDistribution, n being numberOfRowsProperty.value and p this.probability
getBinomialDistribution(n, p, assertionsEnabled) ==
  DistributionLoop(<<>>, 0, n, p, assertionsEnabled)

\* ------------------------------------------------ the histogram's statistics
\* the running statistics of the histogram after construction and after reset()
HistogramStatisticsNew ==
  [landedCount |-> 0, mean |-> Whole(0), sumSquares |-> 0, variance |-> Whole(0)]

\* the variance of addBall with the divisor N
PopulationVariance(sumSquares, N, mean) ==
  IF N > 1
  THEN FracDiv(FracSub(Whole(sumSquares), FracMul(Whole(N), FracMul(mean, mean))), Whole(N))
  ELSE Whole(0)

\* the variance of addBall: ( sumSquares - N mean^2 ) / ( N - 1 ) if N > 1, else 0
Variance(sumSquares, N, mean) ==
  IF N > 1
  THEN FracDiv(FracSub(Whole(sumSquares), FracMul(Whole(N), FracMul(mean, mean))), Whole(N - 1))
  ELSE Whole(0)

\* addBall( binIndex ): the incremental update of the statistics
HistogramStatisticsAddBall(stats, binIndex) ==
  LET N == stats.landedCount + 1
      mean == FracDiv(FracAdd(FracMul(Whole(N - 1), stats.mean), Whole(binIndex)), Whole(N))
      sumSquares == stats.sumSquares + binIndex * binIndex
  IN [landedCount |-> N, mean |-> mean, sumSquares |-> sumSquares,
      variance |-> Variance(sumSquares, N, mean)]

\* reset(): zeros the statistics
HistogramStatisticsReset(stats) == HistogramStatisticsNew

\* a call on the statistics: addBall( b ) for a bin b, or reset()
ResetCall == -1
StatisticsCalls == (0..MaxRows) \cup {ResetCall}

\* the statistics after a sequence of calls
RECURSIVE HistogramStatisticsAfter(_, _)
HistogramStatisticsAfter(stats, calls) ==
  IF calls = <<>> THEN stats
  ELSE HistogramStatisticsAfter(
         IF Head(calls) = ResetCall THEN HistogramStatisticsReset(stats)
         ELSE HistogramStatisticsAddBall(stats, Head(calls)),
         Tail(calls))

\* ------------------------------------------- Ball with its place in the bin
\* indexOfEveryBall: the sum of the bin counts
RECURSIVE indexOfEveryBall(_, _)
indexOfEveryBall(binCountArray, i) ==
  IF i > Len(binCountArray) THEN 0
  ELSE binCountArray[i].binCount + indexOfEveryBall(binCountArray, i + 1)

\* the switch on binCount % 3 with the probabilistic decision read from the
\* end of the random sequence instead of its next value
binDirectionFromLastDraw(bin, random, next) ==
  CASE bin.binCount % 3 = 0 -> IF random[Len(random)] < 5 THEN 1 ELSE -1
    [] bin.binCount % 3 = 1 -> bin.direction * (-1)
    [] bin.binCount % 3 = 2 -> 0

\* the switch on binCount % 3: the ball's horizontal place in the bin; next is
\* the index of the value the next Math.random() call returns
binDirection(bin, random, next) ==
  CASE bin.binCount % 3 = 0 -> IF random[next] < 5 THEN 1 ELSE -1
    [] bin.binCount % 3 = 1 -> bin.direction * (-1)
    [] bin.binCount % 3 = 2 -> 0

\* a constructor whose binIndex also takes the move drawn for the last row,
\* where the board has a bin for it
BallInBinCountsLastRow(p, n, cylindersNumberOfBallsAndLastPosition, random) ==
  LET path == PegHistory(p, n, random)
      last == path[Len(path)]
      column == IF last.direction = 1 /\ last.columnNumber < n
                THEN last.columnNumber + 1 ELSE last.columnNumber
      bin == cylindersNumberOfBallsAndLastPosition[column + 1]
      direction == binDirection(bin, random, n + 2)
      count == binCountIncremented(bin)
      binStackLevel == 2 * (count \div 3) + (IF count % 3 = 0 THEN 0 ELSE 1)
  IN [pegHistory |-> path,
      binIndex |-> column,
      binDirection |-> direction,
      binCount |-> count,
      binStackLevel |-> binStackLevel,
      finalBinVerticalPosition |-> 93 - 4 * binStackLevel,
      finalBinHorizontalPosition |-> direction,
      indexOfBall |-> indexOfEveryBall(cylindersNumberOfBallsAndLastPosition, 1),
      drawsTaken |-> (n + 1) + (IF bin.binCount % 3 = 0 THEN 1 ELSE 0)]

\* new Ball( probability, numberOfRows, cylindersNumberOfBallsAndLastPosition ),
\* random being the values Math.random() returns from the call on; bins are
\* indexed from 1 here. finalBinVerticalPosition is in tenths,
\* finalBinHorizontalPosition in quarters; drawsTaken counts the Math.random() calls
BallInBin(p, n, cylindersNumberOfBallsAndLastPosition, random) ==
  LET path == PegHistory(p, n, random)
      column == path[Len(path)].columnNumber
      bin == cylindersNumberOfBallsAndLastPosition[column + 1]
      direction == binDirection(bin, random, n + 2)
      count == binCountIncremented(bin)
      binStackLevel == 2 * (count \div 3) + (IF count % 3 = 0 THEN 0 ELSE 1)
  IN [pegHistory |-> path,
      binIndex |-> column,
      binDirection |-> direction,
      binCount |-> count,
      binStackLevel |-> binStackLevel,
      finalBinVerticalPosition |-> 93 - 4 * binStackLevel,
      finalBinHorizontalPosition |-> direction,
      indexOfBall |-> indexOfEveryBall(cylindersNumberOfBallsAndLastPosition, 1),
      drawsTaken |-> (n + 1) + (IF bin.binCount % 3 = 0 THEN 1 ELSE 0)]

\* ------------------------------------------------------------ GaltonBoard
\* getPegPosition: x = ( -rowNumber / 2 + columnNumber ) / ( numberOfRows + 1 ) and
\* y = ( -rowNumber - 2 * PEG_HEIGHT_FRACTION_OFFSET ) / ( numberOfRows + 1 ), y
\* given by its part without the offset and by the factor of the offset
getPegPosition(rowNumber, columnNumber, n) ==
  [x |-> Fraction(2 * columnNumber - rowNumber, 2 * (n + 1)),
   y |-> [rows |-> Fraction(-rowNumber, n + 1), offsets |-> Fraction(-2, n + 1)]]

\* isPegVisible
isPegVisible(rowNumber, n) == rowNumber < n

\* the pegs the constructor creates: rows 0..ROWS_RANGE.max, columns 0..row,
\* with neither isVisible nor position set
PegIndices == {rc \in (0..MaxPegRows) \X (0..MaxPegRows) : rc[2] <= rc[1]}
GaltonBoardPegs == [rc \in PegIndices |-> [isVisibleSet |-> FALSE, positionSet |-> FALSE]]

\* the listener of numberOfRowsProperty: every peg gets its visibility, and a
\* visible peg its position
numberOfRowsListener(pegs, n) ==
  [rc \in PegIndices |->
     IF isPegVisible(rc[1], n)
     THEN [isVisibleSet |-> TRUE, isVisible |-> TRUE,
           positionSet |-> TRUE, position |-> getPegPosition(rc[1], rc[2], n)]
     ELSE IF pegs[rc].positionSet
          THEN [isVisibleSet |-> TRUE, isVisible |-> FALSE,
                positionSet |-> TRUE, position |-> pegs[rc].position]
          ELSE [isVisibleSet |-> TRUE, isVisible |-> FALSE, positionSet |-> FALSE]]

\* the pegs after the listener has run for each value of a sequence
RECURSIVE PegsAfter(_, _)
PegsAfter(pegs, values) ==
  IF values = <<>> THEN pegs
  ELSE PegsAfter(numberOfRowsListener(pegs, Head(values)), Tail(values))

\* ------------------------------------------------- calls of single functions
\* the call returns; the next one can be made
CallReturn ==
  /\ call.fn # "none"
  /\ call' = [fn |-> "none"]
  /\ UNCHANGED <<introVars, labVars>>

\* the Timer callbacks a play() can find pending
PendingBefore == {<<>>, <<[id |-> 1, remaining |-> 2, stale |-> FALSE]>>}

\* play() in 'tenBalls' (ten TRUE) or 'allBalls' mode, called with any
\* launchedBallsNumber: the loop of the case
CallPlayLoop ==
  /\ call.fn = "none"
  /\ \E ten \in BOOLEAN, launched \in 0..MAX_BALL_NUMBER, ts \in PendingBefore :
       LET ids == [i \in 1..Len(ts) |-> ts[i].id] IN
       call' = [fn |-> "play", ten |-> ten, launched |-> launched, timerID |-> ids,
                timers |-> ts, result |-> ScheduleLaunches(ten, launched, ids, ts)]
  /\ UNCHANGED <<introVars, labVars>>

\* getBinomialCoefficient( n, k ) for 0 <= k <= n
CallGetBinomialCoefficient ==
  /\ call.fn = "none"
  /\ \E n \in 0..MaxBinomialN : \E k \in 0..n :
       call' = [fn |-> "getBinomialCoefficient", n |-> n, k |-> k,
                result |-> getBinomialCoefficient(n, k)]
  /\ UNCHANGED <<introVars, labVars>>

\* probabilities in tenths the binomial functions are called with
BinomialProbabilities == 0..10

\* getBinomialDistribution() at numberOfRows n and probability p
CallGetBinomialDistribution ==
  /\ call.fn = "none"
  /\ \E n \in 0..MaxBinomialN, p \in BinomialProbabilities, assertionsEnabled \in BOOLEAN :
       call' = [fn |-> "getBinomialDistribution", n |-> n, p |-> p,
                assertionsEnabled |-> assertionsEnabled,
                result |-> getBinomialDistribution(n, p, assertionsEnabled)]
  /\ UNCHANGED <<introVars, labVars>>

\* getBinomialProbability( n, k, p ) for a bin number k in range or just outside
\* it. Outside the range an exponent is negative, and p is then taken strictly
\* between 0 and 1, where Math.pow is finite
CallGetBinomialProbability ==
  /\ call.fn = "none"
  /\ \E n \in 0..MaxBinomialN, assertionsEnabled \in BOOLEAN :
     \E k \in (-1)..(n + 1) :
     \E p \in IF k \in 0..n THEN BinomialProbabilities ELSE BinomialProbabilities \ {0, 10} :
       call' = [fn |-> "getBinomialProbability", n |-> n, k |-> k, p |-> p,
                assertionsEnabled |-> assertionsEnabled,
                result |-> getBinomialProbability(n, k, p, assertionsEnabled)]
  /\ UNCHANGED <<introVars, labVars>>

\* a sequence of addBall and reset calls on a new histogram
CallHistogramStatistics ==
  /\ call.fn = "none"
  /\ \E l \in 0..MaxSamples : \E calls \in [1..l -> StatisticsCalls] :
       call' = [fn |-> "addBall", calls |-> calls,
                result |-> HistogramStatisticsAfter(HistogramStatisticsNew, calls)]
  /\ UNCHANGED <<introVars, labVars>>

\* what a bin holds: its count and the direction of its last ball
BinOccupancies ==
  {[binCount |-> 0, direction |-> 0], [binCount |-> 1, direction |-> 1],
   [binCount |-> 1, direction |-> -1], [binCount |-> 2, direction |-> 1],
   [binCount |-> 2, direction |-> -1], [binCount |-> 3, direction |-> 0]}

\* two balls created from the same probability, number of rows and bins, the
\* second with a random sequence that differs from the first one's after keep values
CallNewBallTwice ==
  /\ call.fn = "none"
  /\ \E p \in Probabilities, n \in 1..MaxRows, bin \in BinOccupancies :
     \E random \in [1..(n + 3) -> RandomValues] :
     \E keep \in {n + 1, n + 2}, v \in RandomValues :
       LET bins == [k \in 1..(n + 1) |-> bin]
           other == [i \in 1..(n + 3) |-> IF i <= keep THEN random[i] ELSE v]
       IN call' = [fn |-> "Ball", p |-> p, n |-> n, bins |-> bins,
                   random |-> random, other |-> other,
                   first |-> BallInBin(p, n, bins, random),
                   second |-> BallInBin(p, n, bins, other)]
  /\ UNCHANGED <<introVars, labVars>>

\* a ball with every field the constructor gives it, the place in the bin
\* included, in a model with an empty histogram
CallNewBall ==
  /\ call.fn = "none"
  /\ \E n \in 1..MaxRows, bin \in BinOccupancies :
     \E random \in [1..(n + 2) -> RandomValues] :
       LET ball == BallInBin(LabProbability, n, [k \in 1..(n + 1) |-> bin], random)
                     @@ Ball(LabProbability, n, random)
       IN call' = [fn |-> "BallLife", probability |-> LabProbability, numberOfRows |-> n,
                   created |-> ball, ball |-> ball, histogram |-> HistogramNew]
  /\ UNCHANGED <<introVars, labVars>>

\* step( dt ) of the model that holds the ball
CallBallStep ==
  /\ call.fn = "BallLife"
  /\ \E df \in StepSizes :
       LET r == StepBall(call.ball, call.histogram, df) IN
       call' = [call EXCEPT !.ball = r.ball, !.histogram = r.histogram]
  /\ UNCHANGED <<introVars, labVars>>

\* ball.updateStatisticsAndLand(), the fast-forward of the 'path' and 'none' modes
CallBallLand ==
  /\ call.fn = "BallLife"
  /\ call' = [call EXCEPT !.ball = updateStatisticsAndLand(@)]
  /\ UNCHANGED <<introVars, labVars>>

\* the host sets the probability or the numberOfRows of the model that holds the ball
CallBallSetProperty ==
  /\ call.fn = "BallLife"
  /\ \/ \E p \in Probabilities : call' = [call EXCEPT !.probability = p]
     \/ \E n \in 1..MaxRows : call' = [call EXCEPT !.numberOfRows = n]
  /\ UNCHANGED <<introVars, labVars>>

\* new GaltonBoard( numberOfRowsProperty ): link runs the listener with the
\* value of the property, and again whenever the property changes
CallGaltonBoard ==
  /\ call.fn = "none"
  /\ \E l \in 1..MaxRowChanges : \E values \in [1..l -> 1..MaxPegRows] :
       /\ \A i \in 1..(l - 1) : values[i] # values[i + 1]
       /\ call' = [fn |-> "GaltonBoard", values |-> values,
                   numberOfRows |-> values[l],
                   pegs |-> PegsAfter(GaltonBoardPegs, values)]
  /\ UNCHANGED <<introVars, labVars>>

Next ==
  \/ Play
  \/ TimerStep(NextDelay(timers))
  \/ Step(14)
  \/ Reset
  \/ \E m \in BallModes : SetBallMode(m)
  \/ \E n \in RowChoices : SetNumberOfRows(n)

Spec == Init /\ [][Next]_vars

\* the life of one ball: the intro model in 'oneBall' mode holding at most one
\* ball, stepped with every step size, with updateStatisticsAndLand called at
\* any moment
NextBall ==
  \/ LaunchFirstBall
  \/ \E df \in StepSizes : Step(df)
  \/ Land
  \/ Reset
  \/ \E p \in Probabilities : SetProbability(p)
  \/ \E n \in 1..MaxRows : SetNumberOfRows(n)

SpecBall == Init /\ [][NextBall]_vars

\* the step sizes of a host whose every dt is at least one half of a hop
PositiveStepSizes == {df \in StepSizes : df >= 1}

\* one ball that no reset takes away, stepped with positive dt only; the host
\* calls step on every animation frame, so step is taken again and again
StepPositive == \E df \in PositiveStepSizes : Step(df)

NextBallFair ==
  \/ LaunchFirstBall
  \/ StepPositive
  \/ \E p \in Probabilities : SetProbability(p)
  \/ \E n \in 1..MaxRows : SetNumberOfRows(n)

SpecBallFair == Init /\ [][NextBallFair]_vars /\ WF_vars(StepPositive)

\* the lab model under its play panel, hopper modes, eraser and reset
NextLab ==
  \/ LabPressPlay
  \/ LabPressPause
  \/ \E m \in LabBallModes : LabSetBallMode(m)
  \/ \E m \in HopperModes : LabSetHopperMode(m)
  \/ \E n \in RowChoices : LabSetNumberOfRows(n)
  \/ \E dt \in LabDts : LabStep(dt)
  \/ LabReset
  \/ LabErase

SpecLab == Init /\ [][NextLab]_vars

\* the functions of the models called one at a time with arguments of every kind
NextCalls ==
  \/ CallPlayLoop
  \/ CallGetBinomialCoefficient
  \/ CallGetBinomialDistribution
  \/ CallGetBinomialProbability
  \/ CallHistogramStatistics
  \/ CallNewBallTwice
  \/ CallGaltonBoard
  \/ CallNewBall
  \/ CallBallStep
  \/ CallBallLand
  \/ CallBallSetProperty
  \/ CallReturn

SpecCalls == Init /\ [][NextCalls]_vars

\* ------------------------------------------------------------------ claims

\* C1: under any sequence of launch requests, Timer callbacks, steps and
\* resets, launchedBallsNumber never exceeds MAX_BALL_NUMBER.
C1_LaunchedNeverExceedsCap == launchedBallsNumber <= MAX_BALL_NUMBER

\* C1 witness: play() was called again with the count already at the cap
C1_Witness ==
  lastOp.op = "play" /\ plays = 2 /\ launchedBallsNumber = MAX_BALL_NUMBER

\* C2: isBallCapReached is true exactly when launchedBallsNumber has reached
\* MAX_BALL_NUMBER.
C2_CapFlagTracksLaunches ==
  isBallCapReached <=> (launchedBallsNumber = MAX_BALL_NUMBER)

\* C3: no launch scheduled before a reset survives it: after reset() Timer
\* holds no callback registered before it, and none ever ran.
C3_NoStaleLaunch ==
  /\ staleLaunches = 0
  /\ \A i \in 1..Len(timers) : ~timers[i].stale

\* C3 witness: a reset that found scheduled launches pending
C3_Witness == lastOp.op = "reset" /\ lastOp.pending

\* C6: with launchedBallsNumber at MAX_BALL_NUMBER, play() in any ballMode
\* changes neither the count, nor the schedule, nor the balls, and raises no error.
C6_PlayAtCapIsNoOp ==
  [][(launchedBallsNumber = MAX_BALL_NUMBER /\ Play)
       => (lastOp'.op # "playThrew"
           /\ UNCHANGED <<launchedBallsNumber, timers, timerID, balls>>)]_vars

\* C7: immediately after reset() there is no active ball, no scheduled launch,
\* launchedBallsNumber is 0 and the histogram is empty.
C7_ResetClearsEverything ==
  lastOp.op = "reset" =>
    /\ balls = <<>>
    /\ timers = <<>>
    /\ launchedBallsNumber = 0
    /\ \A k \in DOMAIN histogram.bins : histogram.bins[k] = 0
    /\ histogram.landedBallsNumber = 0

\* C7 witness: a reset that found launches pending, balls active and balls counted
C7_Witness == lastOp.op = "reset" /\ lastOp.pending /\ lastOp.active /\ lastOp.landed

\* C4: a ball's phase never moves to an earlier phase in the order
\* INITIAL < FALLING < EXIT < COLLECTED, under step calls of any size and
\* updateStatisticsAndLand calls.
C4_PhaseNeverRegresses ==
  [][\A i \in 1..Len(balls) :
       i <= Len(balls') => balls'[i].phase >= balls[i].phase]_vars

\* C4 witness: a ball that went through the pegs and was collected
C4_Witness ==
  \E i \in 1..Len(balls) :
    balls[i].phase = PHASE_COLLECTED /\ balls[i].exited = 1 /\ balls[i].numberOfRows = 2

\* C5: a ball sends 'landed' at most once, and has sent it exactly when it is
\* in PHASE_COLLECTED, whether step or updateStatisticsAndLand collected it.
C5_LandedExactlyOnce ==
  \A i \in 1..Len(balls) :
    /\ balls[i].landed <= 1
    /\ (balls[i].landed = 1) <=> (balls[i].phase = PHASE_COLLECTED)

\* C5 witness: updateStatisticsAndLand was called on a ball that step had collected
C5_Witness ==
  /\ lastOp.op = "land"
  /\ \E i \in 1..Len(balls) :
       balls[i].phase = PHASE_COLLECTED /\ balls[i].exited = 1 /\ balls[i].landed = 1

\* C8: a ball created with numberOfRows = n has a path of n + 1 entries, for the
\* rows 0..n in order, and a binIndex in 0..n.
C8_PathLengthAndBinIndex ==
  \A i \in 1..Len(balls) :
    LET b == balls[i] IN
    /\ b.binIndex \in 0..b.numberOfRows
    /\ b.phase = PHASE_INITIAL =>
         /\ Len(b.pegHistory) = b.numberOfRows + 1
         /\ \A r \in 1..Len(b.pegHistory) : b.pegHistory[r].rowNumber = r - 1

\* C8 witness: a new ball of the largest board whose every draw, the last row's
\* included, went right
C8_Witness ==
  \E i \in 1..Len(balls) :
    LET b == balls[i] IN
    /\ b.phase = PHASE_INITIAL
    /\ b.numberOfRows = MaxRows
    /\ b.binIndex = b.numberOfRows
    /\ b.pegHistory[Len(b.pegHistory)].direction = 1

\* the balls counted in the binCount of the lab bins
LabBinCountSum ==
  LET RECURSIVE Sum(_)
      Sum(k) == IF k < 0 THEN 0 ELSE labHistogram.bins[k].binCount + Sum(k - 1)
  IN Sum(MaxRows)

\* the lab balls that have not left the pegs
LabOnBoard ==
  Cardinality({i \in 1..Len(labBalls) :
                 labBalls[i].phase \in {PHASE_INITIAL, PHASE_FALLING}})

\* C9: in continuous mode, once isBallCapReached is true, a step with the play
\* flag set creates no ball.
C9_NoLaunchAfterCap ==
  [][(labIsBallCapReached /\ isPlaying) => labOp' # "stepCreated"]_vars

C11_ScheduledCountAndDelays ==
  call.fn = "play" =>
    LET room == MAX_BALL_NUMBER - call.launched
        expected == IF call.ten THEN (IF room < 10 THEN room ELSE 10) ELSE room
        stagger == IF call.ten THEN 5 ELSE 3
        before == Len(call.timers)
        r == call.result
    IN /\ r.launched = call.launched + expected
       /\ Len(r.timers) = before + expected
       /\ Len(r.timerID) = before + expected
       /\ SubSeq(r.timers, 1, before) = call.timers
       /\ \A i \in 0..(expected - 1) :
            /\ r.timers[before + i + 1].remaining = i * stagger
            /\ r.timerID[before + i + 1] = r.timers[before + i + 1].id
            /\ \A j \in 1..(before + i) : r.timers[j].id # r.timers[before + i + 1].id

\* C11 witness: 'tenBalls' with five launches left before the cap
C11_Witness ==
  /\ call.fn = "play"
  /\ call.ten
  /\ call.launched = MAX_BALL_NUMBER - 5
  /\ Len(call.result.timers) = Len(call.timers) + 5

\* C12: play() in 'oneBall' mode with launchedBallsNumber below
\* MAX_BALL_NUMBER appends exactly one ball, in PHASE_INITIAL, to the balls,
\* leaves the other balls as they are, adds 1 to launchedBallsNumber and
\* registers no Timer callback.
C12_SingleLaunch ==
  [][(PlayOneBall /\ launchedBallsNumber < MAX_BALL_NUMBER) =>
       /\ Len(balls') = Len(balls) + 1
       /\ SubSeq(balls', 1, Len(balls)) = balls
       /\ balls'[Len(balls')].phase = PHASE_INITIAL
       /\ launchedBallsNumber' = launchedBallsNumber + 1
       /\ UNCHANGED <<timers, timerID>>]_vars

\* C12 witness: a second ball launched while the first is under way
C12_Witness ==
  /\ lastOp.op = "play"
  /\ timers = <<>>
  /\ launchedBallsNumber = 2
  /\ Len(balls) = 2
  /\ balls[1].phase # PHASE_INITIAL
  /\ balls[2].phase = PHASE_INITIAL

\* C13: play() called with ballMode at any of its documented values
\* ('oneBall', 'tenBalls', 'allRemainingBalls', 'continuous') raises no error.
C13_PlayAcceptsDocumentedModes ==
  [][(ballMode \in DocumentedBallModes /\ Play) => lastOp'.op # "playThrew"]_vars

\* C14: getTheoreticalStandardDeviationOfMean returns 'Not A Number' exactly
\* when no ball has landed, and otherwise the square root of n * p * (1 - p) / N
\* for the N balls landed so far.
C14_SentinelIffNoBallLanded ==
  LET r == getTheoreticalStandardDeviationOfMean(numberOfRows, probability)
      N == histogram.landedBallsNumber
  IN /\ r.notANumber <=> (N = 0)
     /\ ~r.notANumber =>
          r.radicand = [num |-> numberOfRows * probability * (10 - probability), den |-> 100 * N]

\* n!
RECURSIVE Factorial(_)
Factorial(n) == IF n <= 0 THEN 1 ELSE n * Factorial(n - 1)

\* C15: for 0 <= k <= n, getBinomialCoefficient(n, k) is the integer
\* n! / (k! (n - k)!), which is 1 for k = 0 and for k = n.
C15_BinomialCoefficient ==
  call.fn = "getBinomialCoefficient" =>
    /\ call.result.den = 1
    /\ call.result.num * Factorial(call.k) * Factorial(call.n - call.k) = Factorial(call.n)
    /\ call.k \in {0, call.n} => call.result.num = 1

\* C15 witness: 4 choose 2 is 6
C15_Witness ==
  /\ call.fn = "getBinomialCoefficient"
  /\ call.n = 4
  /\ call.k = 2
  /\ call.result.num = 6

\* the sum of a sequence of fractions
RECURSIVE FracSum(_)
FracSum(s) == IF s = <<>> THEN Whole(0) ELSE FracAdd(Head(s), FracSum(Tail(s)))

\* p^e for a natural e
RECURSIVE Power(_, _)
Power(b, e) == IF e = 0 THEN 1 ELSE b * Power(b, e - 1)

\* C16: for every n >= 0 and every probability p in [0,1] (in tenths),
\* getBinomialDistribution returns n+1 values, the k-th of which is
\* getBinomialProbability(n,k,p) = C(n,k) p^k (1-p)^(n-k), and their sum is 1.
C16_DistributionSumsToOne ==
  call.fn = "getBinomialDistribution" =>
    /\ Len(call.result) = call.n + 1
    /\ \A k \in 0..call.n :
         /\ call.result[k + 1] =
              getBinomialProbability(call.n, k, call.p, call.assertionsEnabled).value
         /\ call.result[k + 1] =
              Fraction((Factorial(call.n) \div (Factorial(k) * Factorial(call.n - k)))
                         * Power(call.p, k) * Power(10 - call.p, call.n - k),
                       Power(10, call.n))
    /\ FracSum(call.result) = Whole(1)

\* C16 witness: three rows at p = 0.3, where bin 1 has probability 0.441
C16_Witness ==
  /\ call.fn = "getBinomialDistribution"
  /\ call.n = 3
  /\ call.p = 3
  /\ Len(call.result) = 4
  /\ call.result[2] = [num |-> 441, den |-> 1000]

\* C19: getBinomialProbability(n,k,p) with a bin number k outside 0..n
\* (k > n or k < 0) raises the assertion instead of returning a value.
C19_OutOfRangeBinRaises ==
  (call.fn = "getBinomialProbability" /\ (call.k > call.n \/ call.k < 0)) => call.result.threw

\* the bins added since the last reset() in a sequence of calls
RECURSIVE SinceReset(_)
SinceReset(calls) ==
  IF calls = <<>> THEN <<>>
  ELSE IF calls[Len(calls)] = ResetCall THEN <<>>
  ELSE Append(SinceReset(SubSeq(calls, 1, Len(calls) - 1)), calls[Len(calls)])

\* mean and sample variance of a sequence of bins, computed directly
BatchMean(b) ==
  IF b = <<>> THEN Whole(0)
  ELSE FracDiv(FracSum([i \in 1..Len(b) |-> Whole(b[i])]), Whole(Len(b)))
BatchVariance(b) ==
  IF Len(b) <= 1 THEN Whole(0)
  ELSE LET d == [i \in 1..Len(b) |-> FracSub(Whole(b[i]), BatchMean(b))]
       IN FracDiv(FracSum([i \in 1..Len(b) |-> FracMul(d[i], d[i])]), Whole(Len(b) - 1))

\* C17: after addBall(b_1), ..., addBall(b_N) since the last reset, mean is
\* (sum of b_i)/N and variance is sum((b_i - mean)^2)/(N-1) for N > 1 and 0 for
\* N <= 1: the incremental update agrees with the batch computation.
C17_IncrementalMatchesBatch ==
  call.fn = "addBall" =>
    LET b == SinceReset(call.calls)
    IN /\ call.result.landedCount = Len(b)
       /\ call.result.mean = BatchMean(b)
       /\ call.result.variance = BatchVariance(b)

\* C17 witness: bins 0 and 2 added after a reset that followed an earlier ball
C17_Witness ==
  /\ call.fn = "addBall"
  /\ call.calls = <<2, ResetCall, 0, 2>>
  /\ call.result.landedCount = 2
  /\ call.result.mean = Whole(1)
  /\ call.result.variance = Whole(2)

C20_EveryBallAdvancedOnce ==
  [][(\E dt \in LabDts : LabStep(dt))
       => \A i \in 1..Len(labBalls') : labBalls'[i].visits = 1]_vars

\* C21: within one step all balls are advanced before any histogram update
\* caused by a ball completing in that step is applied: a ball that leaves the
\* pegs in a step observes no bin count changed by a ball advanced earlier in
\* the same step (its numberOfBalls is at most the count the step found, plus
\* the ball itself).
C21_NoUpdateSeenWithinStep ==
  [][Step(14) =>
       \A i \in 1..Len(balls) :
         balls'[i].exited > balls[i].exited =>
           balls'[i].numberOfBalls <= histogram.bins[balls[i].binIndex] + 1]_vars

\* C22: a ball is counted in the histogram once, when it sends 'landed' on
\* entering PHASE_COLLECTED: the balls counted in landedBallsNumber have all
\* sent 'landed', so a ball still in PHASE_EXIT is not yet counted.
C22_CountedOnLanded ==
  histogram.landedBallsNumber <= Cardinality({i \in 1..Len(balls) : balls[i].landed = 1})

\* C23: launchedBallsNumber is the number of balls created since the last
\* reset plus the number of scheduled launches still pending, so the balls
\* created never outnumber it.
C23_LaunchedIsCreatedPlusPending ==
  /\ launchedBallsNumber = Len(balls) + Len(timers)
  /\ Len(balls) <= launchedBallsNumber

\* C23 witness: ten launches counted, two of them fired and eight still pending
C23_Witness ==
  /\ launchedBallsNumber = 10
  /\ Len(balls) = 2
  /\ Len(timers) = 8

\* C24: in the hopper modes 'path' and 'none' every ball that is in the array
\* when step is called is in PHASE_COLLECTED when the step returns, having
\* sent its collected signal.
C24_FastModesCollectEveryBall ==
  [][(hopperMode # "ball" /\ \E dt \in LabDts : LabStep(dt)) =>
       \A i \in 1..Len(labBalls') :
         (\E j \in 1..Len(labBalls) : labBalls[j].id = labBalls'[i].id) =>
           /\ labBalls'[i].phase = PHASE_COLLECTED
           /\ labBalls'[i].collected = 1]_vars

\* C25: a ball that step moves takes the entries of its path one per completed
\* hop, in row order: in PHASE_FALLING it stands on the row of the entry taken
\* last and at least one entry is left, and it enters PHASE_EXIT at the hop
\* completion that takes the last entry, so that in PHASE_EXIT and
\* PHASE_COLLECTED all numberOfRows + 1 entries are taken and none is read
\* past the end.
C25_OnePathEntryPerHop ==
  \A i \in 1..Len(balls) :
    LET b == balls[i]
        n == b.numberOfRows
        taken == (n + 1) - Len(b.pegHistory)
    IN b.updated = 0 =>
         /\ \A r \in 1..Len(b.pegHistory) : b.pegHistory[r].rowNumber = taken + r - 1
         /\ b.phase = PHASE_INITIAL => taken = 0
         /\ b.phase = PHASE_FALLING => (taken \in 1..n /\ b.row = taken - 1)
         /\ b.phase \in {PHASE_EXIT, PHASE_COLLECTED} => (taken = n + 1 /\ b.row = n)

\* C25 witness: a ball of a two-row board that has completed a hop between
\* pegs and has one entry left
C25_Witness ==
  \E i \in 1..Len(balls) :
    /\ balls[i].numberOfRows = 2
    /\ balls[i].phase = PHASE_FALLING
    /\ balls[i].row = 1
    /\ Len(balls[i].pegHistory) = 1

\* C25 witness, second case: a ball that has left the pegs of a two-row board
C25_WitnessExit ==
  \E i \in 1..Len(balls) :
    /\ balls[i].numberOfRows = 2
    /\ balls[i].phase = PHASE_EXIT
    /\ balls[i].pegHistory = <<>>
    /\ balls[i].fallenRatio > 0

\* C26: in every reachable state each ball's fallenRatio, the fraction through
\* its current phase, lies in [0,1] (0..2 in halves), in all four phases.
C26_ProgressInUnitInterval ==
  \A i \in 1..Len(balls) : balls[i].fallenRatio >= 0 /\ balls[i].fallenRatio <= 2

\* C26, as step keeps it: fallenRatio is in [0,1) in PHASE_INITIAL and
\* PHASE_FALLING, and in [0, 7 - 0.5 * numberOfBalls) from PHASE_EXIT on, or 0
\* where that bound is not positive; a collected ball keeps the value it had
\* when it was collected.
C26_ProgressBelowPhaseThreshold ==
  \A i \in 1..Len(balls) :
    LET b == balls[i] IN
    /\ b.fallenRatio >= 0
    /\ b.phase \in {PHASE_INITIAL, PHASE_FALLING} => b.fallenRatio < 2
    /\ (b.phase \in {PHASE_EXIT, PHASE_COLLECTED} /\ b.updated = 0) =>
         (b.fallenRatio < 14 - b.numberOfBalls \/ b.fallenRatio = 0)
    /\ b.updated = 1 => b.fallenRatio < 2

\* C26 witness: a ball in PHASE_EXIT that has fallen more than one unit
C26_Witness ==
  \E i \in 1..Len(balls) :
    /\ balls[i].phase = PHASE_EXIT
    /\ balls[i].fallenRatio > 2
    /\ balls[i].numberOfBalls = 1

\* the value of the running columnNumber after the draws of the first k path
\* entries have been added: column += direction + 0.5 per entry
RECURSIVE ColumnAfter(_, _)
ColumnAfter(path, k) ==
  IF k = 0 THEN 0 ELSE ColumnAfter(path, k - 1) + ((path[k].direction + 1) \div 2)

\* C27: a ball's binIndex is the value of the running column after the draw of
\* every row 0..numberOfRows, the last row's included, has been added.
C27_BinIndexAfterLastDraw ==
  \A i \in 1..Len(balls) :
    balls[i].phase = PHASE_INITIAL =>
      balls[i].binIndex = ColumnAfter(balls[i].pegHistory, balls[i].numberOfRows + 1)

\* C27, as the constructor computes it: binIndex is the column of the last
\* path entry, the running column after the draws of the rows
\* 0..numberOfRows-1; the draw of row numberOfRows is not added to it.
C27_BinIndexBeforeLastDraw ==
  \A i \in 1..Len(balls) :
    balls[i].phase = PHASE_INITIAL =>
      /\ balls[i].binIndex = ColumnAfter(balls[i].pegHistory, balls[i].numberOfRows)
      /\ balls[i].binIndex = balls[i].pegHistory[balls[i].numberOfRows + 1].columnNumber

\* C27 witness: a new ball of a two-row board whose last row's draw went right
C27_Witness ==
  \E i \in 1..Len(balls) :
    /\ balls[i].phase = PHASE_INITIAL
    /\ balls[i].numberOfRows = 2
    /\ balls[i].pegHistory[3].direction = 1
    /\ balls[i].binIndex = 1
    /\ ColumnAfter(balls[i].pegHistory, 3) = 2

\* 2 * floor( c / 3 ) + ( 0 if c mod 3 = 0, else 1 )
StackLevelOf(c) == 2 * (c \div 3) + (IF c % 3 = 0 THEN 0 ELSE 1)

\* C28: a ball's binStackLevel is 2*floor(c/3) + (0 if c mod 3 = 0 else 1),
\* c being the count whose remainder mod 3 selects the ball's bin direction:
\* the number of balls that preceded it in its bin.
C28_StackLevelFromPrecedingCount ==
  call.fn = "Ball" =>
    call.first.binStackLevel = StackLevelOf(call.bins[call.first.binIndex + 1].binCount)

\* C28, as the constructor computes it: the bin direction is selected by the
\* number c of balls that preceded the ball in its bin, and binStackLevel is
\* 2*floor((c+1)/3) + (0 if (c+1) mod 3 = 0 else 1), from the count with the
\* ball itself.
C28_StackLevelFromOwnCount ==
  call.fn = "Ball" =>
    LET c == call.bins[call.first.binIndex + 1].binCount IN
    /\ call.first.binCount = c + 1
    /\ call.first.binStackLevel = StackLevelOf(c + 1)
    /\ call.first.finalBinVerticalPosition = 93 - 4 * StackLevelOf(c + 1)

\* C28 witness: the third ball of a bin, which goes to the centre on level 2
C28_Witness ==
  /\ call.fn = "Ball"
  /\ call.bins[call.first.binIndex + 1].binCount = 2
  /\ call.first.binDirection = 0
  /\ call.first.binStackLevel = 2

\* the rule of the bin direction: the remainder mod 3 of the count read selects
\* a random side, the side opposite to the recorded direction, or the centre
BinDirectionRule ==
  \A bin \in BinOccupancies, r \in RandomValues :
    LET d == binDirection(bin, <<r>>, 1) IN
    /\ d \in {-1, 0, 1}
    /\ bin.binCount % 3 = 0 => d = (IF r < 5 THEN 1 ELSE -1)
    /\ bin.binCount % 3 = 1 => d = -bin.direction
    /\ bin.binCount % 3 = 2 => d = 0

\* C29: the count whose remainder mod 3 selects a ball's bin direction is the
\* occupancy of its bin at the moment the ball first reaches PHASE_EXIT (the
\* balls registered in the bin then, the ball itself left out).
C29_DirectionFromCountAtExit ==
  \A i \in 1..Len(labBalls) :
    labBalls[i].phase = PHASE_EXIT =>
      (labBalls[i].binCount - 1) % 3
        = (labHistogram.bins[labBalls[i].binIndex].binCount - 1) % 3

\* C29, as the constructor decides it: the count is the one the bin has when
\* the ball is created (the balls created for that bin before it, landed or
\* not) and is never read again; its remainder mod 3 selects a random side, the
\* side opposite to the bin's recorded direction, or the centre, always a value
\* in {-1, 0, 1}.
C29_DirectionFromCountAtCreation ==
  [][/\ BinDirectionRule
     /\ \A i \in 1..Len(labBalls') :
          LET b == labBalls'[i]
              before == {j \in 1..Len(labBalls) : labBalls[j].id = b.id}
          IN /\ before = {} => b.binCount = labHistogram.bins[b.binIndex].binCount + 1
             /\ \A j \in before : b.binCount = labBalls[j].binCount]_vars

\* C29 witness: a ball reaches PHASE_EXIT as the first of its bin, after a
\* second ball has been created for the same bin
C29_Witness ==
  \E i \in 1..Len(labBalls) :
    /\ labBalls[i].phase = PHASE_EXIT
    /\ labBalls[i].binCount = 1
    /\ labHistogram.bins[labBalls[i].binIndex].binCount = 2

\* C30: while a ball is in PHASE_FALLING, the horizontal target of its hop
\* includes the final bin offset exactly when the ball is on the last row it
\* traverses on its own board, row = numberOfRows - 1, for every numberOfRows.
C30_BinOffsetOnLastRow ==
  \A i \in 1..Len(balls) :
    balls[i].phase = PHASE_FALLING =>
      (getPositionFallingAddsBinOffset(balls[i]) <=> balls[i].row = balls[i].numberOfRows - 1)

\* C31: after the listener has run for numberOfRows = n, every peg of the
\* lattice, visible or not, has isVisible = (row < n) and the position
\* getPegPosition gives for n; exactly n(n+1)/2 pegs are visible.
C31_EveryPegRepositioned ==
  call.fn = "GaltonBoard" =>
    LET n == call.numberOfRows IN
    /\ \A rc \in PegIndices :
         /\ call.pegs[rc].isVisibleSet
         /\ call.pegs[rc].isVisible = (rc[1] < n)
         /\ call.pegs[rc].positionSet
         /\ call.pegs[rc].position = getPegPosition(rc[1], rc[2], n)
    /\ 2 * Cardinality({rc \in PegIndices : call.pegs[rc].isVisible}) = n * (n + 1)

\* the lab balls with bin k that have not left the pegs
LabOnPegsOfBin(bs, k) ==
  Cardinality({i \in 1..Len(bs) :
                 bs[i].binIndex = k /\ bs[i].phase \in {PHASE_INITIAL, PHASE_FALLING}})

\* the ids of the lab balls
LabIds(bs) == {bs[i].id : i \in 1..Len(bs)}

C33_LandActsOnInitialOnly ==
  [][lastOp'.op = "land" =>
       /\ Len(balls') = Len(balls)
       /\ \A i \in 1..Len(balls) :
            IF balls[i].phase = PHASE_INITIAL
            THEN balls'[i] = [balls[i] EXCEPT !.phase = PHASE_COLLECTED,
                                              !.updated = @ + 1, !.landed = @ + 1]
            ELSE balls'[i] = balls[i]
       /\ UNCHANGED <<histogram, landedBallsNumber, launchedBallsNumber, isBallCapReached,
                      timers, timerID, probability, numberOfRows, ballMode>>]_vars

\* C33 witness: updateStatisticsAndLand was called on a ball on its way through
\* the pegs, which is still there and has sent nothing
C33_Witness ==
  /\ lastOp.op = "land"
  /\ \E i \in 1..Len(balls) :
       /\ balls[i].phase = PHASE_FALLING
       /\ balls[i].landed = 0
       /\ balls[i].updated = 0

\* C34: with every step of a dt of at least a positive constant, and no reset
\* taking the ball away, a launched ball reaches PHASE_COLLECTED after finitely
\* many steps.
C34_EveryBallIsCollected ==
  (balls # <<>>) ~> (balls # <<>> /\ \A i \in 1..Len(balls) : balls[i].phase = PHASE_COLLECTED)

\* C34 witness: a ball that steps alone took through its initial phase, every
\* hop of the largest board and the exit
C34_Witness ==
  \E i \in 1..Len(balls) :
    /\ balls[i].phase = PHASE_COLLECTED
    /\ balls[i].row = MaxRows - 1
    /\ balls[i].pegHistory = <<>>
    /\ balls[i].exited = 1 /\ balls[i].landed = 1 /\ balls[i].updated = 0
    /\ balls[i].fallenRatio > 0

\* C35: once a ball is in PHASE_COLLECTED, step calls leave its phase, its
\* fallenRatio and the peg, bin and stack data its position is computed from
\* unchanged, and send no further 'exited' or 'landed': the ball stays as it
\* is for as long as it is in the array.
C35_CollectedBallIsFrozen ==
  [][\A i \in 1..Len(balls) :
       (balls[i].phase = PHASE_COLLECTED /\ i <= Len(balls')) => balls'[i] = balls[i]]_vars

\* C35 witness: step was called on a ball that updateStatisticsAndLand had
\* collected before
C35_Witness ==
  /\ lastOp.op = "step"
  /\ \E i \in 1..Len(balls) :
       /\ balls[i].phase = PHASE_COLLECTED
       /\ balls[i].updated = 1 /\ balls[i].landed = 1 /\ balls[i].exited = 0

\* C36: after a ball is created, its binIndex, its binDirection and its
\* binStackLevel, with the final position in the bin computed from them, never
\* change under any step, any updateStatisticsAndLand call or any change of the
\* model's probability or numberOfRows.
C36_BinPlacementNeverChanges ==
  call.fn = "BallLife" =>
    /\ call.ball.binIndex = call.created.binIndex
    /\ call.ball.binDirection = call.created.binDirection
    /\ call.ball.binStackLevel = call.created.binStackLevel
    /\ call.ball.binCount = call.created.binCount
    /\ call.ball.finalBinHorizontalPosition = call.created.finalBinHorizontalPosition
    /\ call.ball.finalBinVerticalPosition = call.created.finalBinVerticalPosition
    /\ call.ball.numberOfRows = call.created.numberOfRows

\* C36 witness: a ball stepped through the pegs into its bin after the model's
\* probability and numberOfRows were changed
C36_Witness ==
  /\ call.fn = "BallLife"
  /\ call.ball.phase = PHASE_COLLECTED
  /\ call.ball.exited = 1
  /\ call.probability # LabProbability
  /\ call.numberOfRows # call.ball.numberOfRows
  /\ call.ball.binIndex = 1
  /\ call.ball.binDirection = -1
  /\ call.ball.binStackLevel = 1

\* C37: along a ball's path the column is 0 at row 0, and the column at row
\* r + 1 is the column at row r plus direction_r + 0.5 (0 for a left move, 1 for
\* a right move), so the path entry at row r has 0 <= column <= r.
C37_ColumnIsRunningSumOfMoves ==
  \A i \in 1..Len(balls) :
    balls[i].phase = PHASE_INITIAL =>
      LET path == balls[i].pegHistory IN
      /\ path[1].rowNumber = 0 /\ path[1].columnNumber = 0
      /\ \A r \in 1..(Len(path) - 1) :
           /\ path[r].direction \in {-1, 1}
           /\ path[r + 1].columnNumber = path[r].columnNumber + ((path[r].direction + 1) \div 2)
      /\ \A r \in 1..Len(path) :
           0 <= path[r].columnNumber /\ path[r].columnNumber <= path[r].rowNumber

\* C37 witness: a new ball of a two-row board that moves right on row 0 and
\* left on row 1
C37_Witness ==
  \E i \in 1..Len(balls) :
    /\ balls[i].phase = PHASE_INITIAL
    /\ Len(balls[i].pegHistory) = 3
    /\ balls[i].pegHistory[1].direction = 1
    /\ balls[i].pegHistory[2].direction = -1
    /\ balls[i].pegHistory[2].columnNumber = 1
    /\ balls[i].pegHistory[3].columnNumber = 1

\* C38: with probability 0 every direction of a ball's path is left (-0.5) and
\* its binIndex is 0; with probability 1 every direction is right (+0.5) and
\* its binIndex is numberOfRows, whatever Math.random() returns in [0, 1).
C38_ExtremeProbabilitiesFixThePath ==
  call.fn = "Ball" =>
    \A b \in {call.first, call.second} :
      /\ call.p = 0 =>
           /\ \A r \in 1..Len(b.pegHistory) :
                b.pegHistory[r].direction = -1 /\ b.pegHistory[r].columnNumber = 0
           /\ b.binIndex = 0
      /\ call.p = 10 =>
           /\ \A r \in 1..Len(b.pegHistory) :
                b.pegHistory[r].direction = 1 /\ b.pegHistory[r].columnNumber = r - 1
           /\ b.binIndex = call.n

\* C38 witness: a ball created with probability 0 on the largest board while
\* Math.random() returned 0 for every row
C38_Witness ==
  /\ call.fn = "Ball"
  /\ call.p = 0
  /\ call.n = MaxRows
  /\ \A r \in 1..(call.n + 1) : call.random[r] = 0
  /\ Len(call.first.pegHistory) = call.n + 1
  /\ call.first.binIndex = 0

\* C39: a ball's binIndex is the number of rightward (+0.5) directions among
\* its path entries of the rows 0..numberOfRows-1; the direction drawn for the
\* last path entry (row numberOfRows) never affects binIndex.
C39_BinIndexCountsRightMoves ==
  call.fn = "Ball" =>
    /\ \A b \in {call.first, call.second} :
         b.binIndex = Cardinality({r \in 1..call.n : b.pegHistory[r].direction = 1})
    /\ \A v \in RandomValues :
         BallInBin(call.p, call.n, call.bins, [call.random EXCEPT ![call.n + 1] = v]).binIndex
           = call.first.binIndex

\* C39 witness: a ball of a two-row board that moves left on both rows and
\* draws a move to the right on the last path entry
C39_Witness ==
  /\ call.fn = "Ball"
  /\ call.n = 2
  /\ call.first.pegHistory[1].direction = -1
  /\ call.first.pegHistory[2].direction = -1
  /\ call.first.pegHistory[3].direction = 1
  /\ call.first.binIndex = 0

\* the values of the history record of a change of hopperMode
HopperModeOps == {"hopperMode", "hopperModeOnPegs", "hopperModeOnAndPastPegs"}

\* C40: when hopperMode changes, the ball array is emptied and each bin's count
\* goes down by one for every removed ball that had not left the pegs, the
\* balls that had exited or been collected staying counted; afterwards each
\* bin's count is the number of balls that exited into it.
C40_ModeChangeLeavesExitedBallsCounted ==
  [][(hopperMode' # hopperMode /\ labOp' \in HopperModeOps) =>
       /\ labBalls' = <<>>
       /\ \A k \in DOMAIN labHistogram.bins :
            /\ labHistogram'.bins[k].binCount =
                 labHistogram.bins[k].binCount - LabOnPegsOfBin(labBalls, k)
            /\ labHistogram'.bins[k].binCount = labHistogram'.exitedInto[k]
       /\ labHistogram'.landedBallsNumber = labHistogram.landedBallsNumber]_vars

\* C40, the part that holds: a change of hopperMode empties the ball array and
\* takes each ball still on the pegs, and no other ball, out of its bin's count
C40_ModeChangeTakesBallsOnPegsOut ==
  [][(hopperMode' # hopperMode /\ labOp' \in HopperModeOps) =>
       /\ labBalls' = <<>>
       /\ \A k \in DOMAIN labHistogram.bins :
            labHistogram'.bins[k].binCount =
              labHistogram.bins[k].binCount - LabOnPegsOfBin(labBalls, k)]_vars

====
